---- MODULE Spec2Model ----
(***************************************************************************)
(* Model of net-network-calculator (src/main.py).                          *)
(*                                                                         *)
(* The program is one command-line run: main() validates the address       *)
(* argument, calls calculate_network_info(ip_address, cidr_mask) and       *)
(* prints five lines or exits 1.  calculate_network_info is also callable  *)
(* directly; the model has both entry points.                              *)
(*                                                                         *)
(* Strings are sequences of one-character strings, so that parsing and     *)
(* formatting are computed and not assumed.  A Python int that may exceed  *)
(* 31 bits (an IPv4 address as an integer, a host count up to 2^32) is a   *)
(* pair <<hi, lo>> of 16-bit limbs with value hi * 65536 + lo; hi is not   *)
(* reduced, so 2^32 is <<65536, 0>> and nothing is truncated.              *)
(*                                                                         *)
(* The calls into the standard library module ipaddress are modelled from  *)
(* the library's behaviour (CPython 3.11) at the call sites of main.py.    *)
(* Memory is idealised: a list of up to 2^32 hosts can be built; a list    *)
(* longer than a Python list can be (an IPv6 network of 2^96 or more       *)
(* hosts) raises MemoryError.                                              *)
(***************************************************************************)
EXTENDS Integers, Sequences, FiniteSets, TLC

VARIABLES entry, pc, ip_address, cidr_mask, network, network_info, stdout, stderr, exit_code

vars == <<entry, pc, ip_address, cidr_mask, network, network_info, stdout, stderr, exit_code>>

----------------------------------------------------------------------------
(* Bounds of the explored inputs.                                          *)

\* prefix lengths explored: (0 - CidrSlack) .. (32 + CidrSlack)
CidrSlack == 2

\* segments dropped from / appended to a dotted quad to get a wrong count
ExtraSegs == 1

----------------------------------------------------------------------------
(* Characters and strings.                                                 *)

Digits == <<"0", "1", "2", "3", "4", "5", "6", "7", "8", "9">>

DigitChars == {"0", "1", "2", "3", "4", "5", "6", "7", "8", "9"}

\* IPv6Address._HEX_DIGITS
HEX_DIGITS == DigitChars \cup {"a", "b", "c", "d", "e", "f", "A", "B", "C", "D", "E", "F"}

DigitVal(c) == CHOOSE i \in 0..9 : Digits[i + 1] = c

Contains(s, c) == \E i \in 1..Len(s) : s[i] = c

FirstIndex(s, c) == CHOOSE i \in 1..Len(s) : s[i] = c /\ \A j \in 1..(i - 1) : s[j] # c

\* str.split(sep): the pieces between the separators, empty pieces kept
RECURSIVE Split(_, _)
Split(s, sep) ==
    IF ~Contains(s, sep) THEN <<s>>
    ELSE LET i == FirstIndex(s, sep)
         IN  <<SubSeq(s, 1, i - 1)>> \o Split(SubSeq(s, i + 1, Len(s)), sep)

\* sep.join(parts)
RECURSIVE Join(_, _)
Join(parts, sep) ==
    IF Len(parts) = 0 THEN <<>>
    ELSE IF Len(parts) = 1 THEN parts[1]
    ELSE parts[1] \o <<sep>> \o Join(Tail(parts), sep)

\* str.isascii() and str.isdigit(): non-empty, decimal digits only
IsAsciiDigits(s) == Len(s) > 0 /\ \A i \in 1..Len(s) : s[i] \in DigitChars

\* int(s, 10) of a string of decimal digits
RECURSIVE IntOfDigits(_)
IntOfDigits(s) ==
    IF Len(s) = 0 THEN 0
    ELSE IntOfDigits(SubSeq(s, 1, Len(s) - 1)) * 10 + DigitVal(s[Len(s)])

\* str(n) of a small int
RECURSIVE StrOfNat(_)
StrOfNat(n) ==
    IF n < 10 THEN <<Digits[n + 1]>>
    ELSE StrOfNat(n \div 10) \o <<Digits[(n % 10) + 1]>>

StrOfInt(n) == IF n < 0 THEN <<"-">> \o StrOfNat(0 - n) ELSE StrOfNat(n)

----------------------------------------------------------------------------
(* Python ints wider than 31 bits: <<hi, lo>>, value hi * 65536 + lo.      *)

RECURSIVE Pow2(_)
Pow2(k) == IF k = 0 THEN 1 ELSE 2 * Pow2(k - 1)

Limb == Pow2(16)

W(hi, lo) == <<hi, lo>>

WAdd(a, b) ==
    LET lo == a[2] + b[2]
    IN  <<a[1] + b[1] + (lo \div Limb), lo % Limb>>

\* a - b for a >= b
WSub(a, b) ==
    LET lo == a[2] - b[2]
    IN  IF lo < 0 THEN <<a[1] - b[1] - 1, lo + Limb>> ELSE <<a[1] - b[1], lo>>

\* bitwise operations on one limb, bit by bit
RECURSIVE And16(_, _, _)
And16(x, y, n) ==
    IF n = 0 THEN 0
    ELSE 2 * And16(x \div 2, y \div 2, n - 1) + (IF x % 2 = 1 /\ y % 2 = 1 THEN 1 ELSE 0)

RECURSIVE Or16(_, _, _)
Or16(x, y, n) ==
    IF n = 0 THEN 0
    ELSE 2 * Or16(x \div 2, y \div 2, n - 1) + (IF x % 2 = 1 \/ y % 2 = 1 THEN 1 ELSE 0)

RECURSIVE Xor16(_, _, _)
Xor16(x, y, n) ==
    IF n = 0 THEN 0
    ELSE 2 * Xor16(x \div 2, y \div 2, n - 1) + (IF x % 2 # y % 2 THEN 1 ELSE 0)

WAnd(a, b) == <<And16(a[1], b[1], 16), And16(a[2], b[2], 16)>>

WOr(a, b) == <<Or16(a[1], b[1], 16), Or16(a[2], b[2], 16)>>

WXor(a, b) == <<Xor16(a[1], b[1], 16), Xor16(a[2], b[2], 16)>>

\* a >> k for a 32-bit a and 0 <= k <= 32
WShr(a, k) ==
    IF k >= 16 THEN <<0, a[1] \div Pow2(k - 16)>>
    ELSE <<a[1] \div Pow2(k), ((a[1] % Pow2(k)) * Pow2(16 - k)) + (a[2] \div Pow2(k))>>

\* a > n for a small n
WGreater(a, n) == a[1] > 0 \/ a[2] > n

\* str(a): decimal digits by repeated division by ten
RECURSIVE StrOfWide(_)
StrOfWide(a) ==
    IF a[1] = 0 THEN StrOfNat(a[2])
    ELSE LET r  == a[1] % 10
             lo == (r * Limb) + a[2]
         IN  StrOfWide(<<a[1] \div 10, lo \div 10>>) \o <<Digits[(lo % 10) + 1]>>

----------------------------------------------------------------------------
(* ipaddress: IPv4 addresses.                                              *)

\* _BaseV4._parse_octet: does the octet string parse
parse_octet_ok(octet_str) ==
    /\ Len(octet_str) > 0
    /\ IsAsciiDigits(octet_str)
    /\ Len(octet_str) <= 3
    /\ ~(octet_str # <<"0">> /\ octet_str[1] = "0")
    /\ IntOfDigits(octet_str) <= 255

\* IPv4Address(str) raises AddressValueError unless this holds
IPv4AddressOk(addr_str) ==
    /\ ~Contains(addr_str, "/")
    /\ Len(addr_str) > 0
    /\ LET octets == Split(addr_str, ".")
       IN  /\ Len(octets) = 4
           /\ \A i \in 1..4 : parse_octet_ok(octets[i])

\* int.from_bytes(map(_parse_octet, octets), 'big')
ip_int_from_string(ip_str) ==
    LET octets == Split(ip_str, ".")
        b      == [i \in 1..4 |-> IntOfDigits(octets[i])]
    IN  W((b[1] * 256) + b[2], (b[3] * 256) + b[4])

\* '.'.join(map(str, ip_int.to_bytes(4, 'big')))
string_from_ip_int(ip_int) ==
    LET bytes == <<ip_int[1] \div 256, ip_int[1] % 256, ip_int[2] \div 256, ip_int[2] % 256>>
    IN  Join([i \in 1..4 |-> StrOfNat(bytes[i])], ".")

\* _BaseV4._ALL_ONES = 2**32 - 1
ALL_ONES == W(Limb - 1, Limb - 1)

\* _ip_int_from_prefix: ALL_ONES ^ (ALL_ONES >> prefixlen)
ip_int_from_prefix(prefixlen) == WXor(ALL_ONES, WShr(ALL_ONES, prefixlen))

----------------------------------------------------------------------------
(* ipaddress: IPv6 addresses (only whether the string is accepted).        *)

\* _BaseV6._parse_hextet: does the hextet string parse
parse_hextet_ok(hextet_str) ==
    /\ \A i \in 1..Len(hextet_str) : hextet_str[i] \in HEX_DIGITS
    /\ Len(hextet_str) <= 4
    /\ Len(hextet_str) > 0

\* _BaseV6._ip_int_from_string, with a '::' at parts[skip_index]: the parts
\* before and after it parse and at least one hextet is skipped
ip6_skip_ok(parts, n, parts_hi, parts_lo) ==
    /\ parts[1] = <<>> => parts_hi = 0
    /\ parts[n] = <<>> => parts_lo = 0
    /\ 8 - (parts_hi + parts_lo) >= 1
    /\ \A i \in 1..parts_hi : parse_hextet_ok(parts[i])
    /\ \A i \in (n - parts_lo + 1)..n : parse_hextet_ok(parts[i])

\* _BaseV6._ip_int_from_string, after the split on ':' and the replacement
\* of an IPv4-style suffix: at most 9 parts, at most one '::'
ip6_parts_ok(parts, n, skips) ==
    /\ n <= 9
    /\ Cardinality(skips) <= 1
    /\ IF skips # {}
       THEN \E skip_index \in skips :
                ip6_skip_ok(parts, n,
                            IF parts[1] = <<>> THEN skip_index - 2 ELSE skip_index - 1,
                            IF parts[n] = <<>> THEN n - skip_index - 1 ELSE n - skip_index)
       ELSE /\ n = 8
            /\ \A i \in 1..n : parse_hextet_ok(parts[i])

ip6_parts_checked(parts) ==
    ip6_parts_ok(parts, Len(parts), {i \in 2..(Len(parts) - 1) : parts[i] = <<>>})

\* an IPv4-style suffix must parse; it is replaced by its two hextets
ip6_split_ok(parts0, last0) ==
    /\ Len(parts0) >= 3
    /\ IF Contains(last0, ".")
       THEN /\ IPv4AddressOk(last0)
            /\ ip6_parts_checked(SubSeq(parts0, 1, Len(parts0) - 1) \o << <<"0">>, <<"0">> >>)
       ELSE ip6_parts_checked(parts0)

ip6_last(parts0) == parts0[Len(parts0)]

ip6_after_split(parts0) == ip6_split_ok(parts0, ip6_last(parts0))

\* _BaseV6._ip_int_from_string: does the string parse
ip6_int_from_string_ok(ip_str) ==
    /\ Len(ip_str) > 0
    /\ ip6_after_split(Split(ip_str, ":"))

\* _BaseV6._split_scope_id, then _ip_int_from_string
ip6_scoped_ok(addr_str, i) ==
    /\ Len(addr_str) > i
    /\ ~Contains(SubSeq(addr_str, i + 1, Len(addr_str)), "%")
    /\ ip6_int_from_string_ok(SubSeq(addr_str, 1, i - 1))

\* IPv6Address(str) raises AddressValueError unless this holds
IPv6AddressOk(addr_str) ==
    /\ ~Contains(addr_str, "/")
    /\ IF Contains(addr_str, "%")
       THEN ip6_scoped_ok(addr_str, FirstIndex(addr_str, "%"))
       ELSE ip6_int_from_string_ok(addr_str)

\* ipaddress.ip_address(address) returns (does not raise ValueError)
ip_address_ok(address) == IPv4AddressOk(address) \/ IPv6AddressOk(address)

----------------------------------------------------------------------------
(* ipaddress: networks.                                                    *)

None == [none |-> TRUE]

\* _prefix_from_prefix_string: the prefix length, or -1 for NetmaskValueError.
\* (The fallback _prefix_from_ip_string wants a dotted quad and so always
\* fails on the decimal rendering of an int.)
prefix_from_prefix_string(prefixlen_str, max_prefixlen) ==
    IF IsAsciiDigits(prefixlen_str) /\ IntOfDigits(prefixlen_str) <= max_prefixlen
    THEN IntOfDigits(prefixlen_str)
    ELSE 0 - 1

\* variant: the host bits are left in place
IPv4NetworkAddress_unmasked(packed, netmask) == packed

\* IPv4Network.__init__ with strict=False: host bits are masked off
IPv4NetworkAddress(packed, netmask) == WAnd(packed, netmask)

\* variant: strict=True, an address with host bits set is refused
IPv4Network_strict(packed, prefixlen, netmask) ==
    IF WAnd(packed, netmask) # packed THEN None
    ELSE [version         |-> 4,
          addr            |-> packed,
          netmask         |-> netmask,
          prefixlen       |-> prefixlen,
          network_address |-> packed]

\* IPv4Network(address, strict=False), once address and mask are accepted
IPv4Network(packed, prefixlen, netmask) ==
    [version         |-> 4,
     addr            |-> packed,
     netmask         |-> netmask,
     prefixlen       |-> prefixlen,
     network_address |-> IPv4NetworkAddress(packed, netmask)]

\* IPv4Network / IPv6Network from the address and mask strings;
\* None for AddressValueError or NetmaskValueError in both
network_from(addr, p4, p6) ==
    IF IPv4AddressOk(addr) /\ p4 >= 0
    THEN IPv4Network(ip_int_from_string(addr), p4, ip_int_from_prefix(p4))
    ELSE IF IPv6AddressOk(addr) /\ p6 >= 0
    THEN [version |-> 6, prefixlen |-> p6]
    ELSE None

\* _split_addr_prefix: at most one '/' (AddressValueError otherwise); no '/'
\* means the full prefix length
network_from_parts(parts) ==
    IF Len(parts) > 2 THEN None
    ELSE IF Len(parts) = 1 THEN network_from(parts[1], 32, 128)
    ELSE network_from(parts[1],
                      prefix_from_prefix_string(parts[2], 32),
                      prefix_from_prefix_string(parts[2], 128))

\* ipaddress.ip_network(address, strict=False): a network, or None for ValueError
ip_network(address) == network_from_parts(Split(address, "/"))

\* _BaseNetwork.hostmask: netmask ^ ALL_ONES
hostmask(net) == WXor(net.netmask, ALL_ONES)

\* variant: the netmask taken for the hostmask
broadcast_address_netmask(net) == WOr(net.network_address, net.netmask)

\* _BaseNetwork.broadcast_address: network_address | hostmask
broadcast_address(net) == WOr(net.network_address, hostmask(net))

\* variant: the count kept in an unsigned 32-bit integer
num_addresses_u32(net) ==
    [i \in 1..2 |-> WAdd(WSub(broadcast_address(net), net.network_address), W(0, 1))[i] % Limb]

\* _BaseNetwork.num_addresses: broadcast_address - network_address + 1
num_addresses(net) ==
    WAdd(WSub(broadcast_address(net), net.network_address), W(0, 1))

\* an IPv6 network has 2^(128 - prefixlen) addresses: more than 2 below /127
num_addresses_gt2(net) ==
    IF net.version = 4 THEN WGreater(num_addresses(net), 2)
    ELSE net.prefixlen < 127

\* list(network.hosts())[0]: hosts() runs over network+1 .. broadcast-1, is
\* the network's own iterator for a /31 and the one address for a /32
hosts_first(net) ==
    IF net.prefixlen = 31 THEN net.network_address
    ELSE IF net.prefixlen = 32 THEN net.addr
    ELSE WAdd(net.network_address, W(0, 1))

\* variant: the range runs up to the broadcast address
hosts_last_broadcast(net) == broadcast_address(net)

\* list(network.hosts())[-1]
hosts_last(net) ==
    IF net.prefixlen = 31 THEN broadcast_address(net)
    ELSE IF net.prefixlen = 32 THEN net.addr
    ELSE WSub(broadcast_address(net), W(0, 1))

----------------------------------------------------------------------------
(* src/main.py                                                             *)

NA == <<"N", "/", "A", " ", "(", "N", "e", "t", "w", "o", "r", "k", " ",
        "t", "o", "o", " ", "s", "m", "a", "l", "l", ")">>

ErrCidr == "Error: CIDR mask must be between 0 and 32."

ErrNetwork == "Error: <address>/<mask> does not appear to be an IPv4 or IPv6 network"

ErrUnexpected == "Error: An unexpected error occurred: "

ErrAddressFormat == "Error: Invalid IP address format: <address> does not appear to be an IPv4 or IPv6 address"

\* variant: if not 0 <= cidr_mask
cidr_mask_valid_lower_only(cidr) == 0 <= cidr

\* line 33: if not 0 <= cidr_mask <= 32
cidr_mask_valid(cidr) == 0 <= cidr /\ cidr <= 32

\* line 36: the string handed to ip_network
network_string(ip, cidr) == ip \o <<"/">> \o StrOfInt(cidr)

\* variant: if network.num_addresses >= 2
has_usable_hosts_ge2(net) ==
    IF net.version = 4 THEN WGreater(num_addresses(net), 1) ELSE net.prefixlen < 128

\* line 42: if network.num_addresses > 2
has_usable_hosts(net) == num_addresses_gt2(net)

\* lines 43-44: list(network.hosts()) is built.  An IPv4 network has at most
\* 2^32 hosts; an IPv6 network has 2^(128 - prefixlen) - 1, and a list holds
\* at most 2^63 - 1 items, so below /65 the list raises MemoryError
hosts_list_fits(net) == net.version = 4 \/ net.prefixlen >= 65

\* lines 38-57: the record built from the network
network_record(net) ==
    [network_address   |-> string_from_ip_int(net.network_address),
     broadcast_address |-> string_from_ip_int(broadcast_address(net)),
     first_usable_host |-> IF has_usable_hosts(net)
                           THEN string_from_ip_int(hosts_first(net)) ELSE NA,
     last_usable_host  |-> IF has_usable_hosts(net)
                           THEN string_from_ip_int(hosts_last(net)) ELSE NA,
     total_hosts       |-> num_addresses(net)]

\* lines 36-65, from the result of ip_network
calculate_from_network(net) ==
    IF net = None
    THEN [ret |-> None, err |-> <<ErrNetwork>>, network |-> None]
    ELSE IF has_usable_hosts(net) /\ ~hosts_list_fits(net)
    THEN [ret |-> None, err |-> <<ErrUnexpected>>, network |-> net]
    ELSE [ret |-> network_record(net), err |-> <<>>, network |-> net]

\* calculate_network_info(ip_address, cidr_mask): what it returns (ret), what
\* it prints to standard error (err), and its local variable network when it
\* leaves (None when line 36 was never reached or raised)
calculate_network_info(ip, cidr) ==
    IF ~cidr_mask_valid(cidr)
    THEN [ret |-> None, err |-> <<ErrCidr>>, network |-> None]
    ELSE calculate_from_network(ip_network(network_string(ip, cidr)))

----------------------------------------------------------------------------
(* The inputs explored.                                                    *)

\* the addresses of the documented scenarios
ScenarioAddresses ==
    {<<"1", "9", "2", ".", "1", "6", "8", ".", "1", ".", "0">>,
     <<"1", "0", ".", "0", ".", "0", ".", "1">>,
     <<"1", "7", "2", ".", "1", "6", ".", "0", ".", "5">>,
     <<"1", "9", "2", ".", "1", "6", "8", ".", "1", ".", "1">>}

\* quads of all-zero and all-one octets, quads of alternating bits
QuadsOver(texts) ==
    {Join(<<a, b, c, d>>, ".") : a \in texts, b \in texts, c \in texts, d \in texts}

DottedQuads ==
    QuadsOver({StrOfNat(0), StrOfNat(255)}) \cup QuadsOver({StrOfNat(85), StrOfNat(170)})
        \cup ScenarioAddresses

\* octet texts that are not a decimal number in 0..255 written plainly
BadOctetTexts ==
    {<<"2", "5", "6">>,
     <<"0", "1">>,
     <<"1", " ">>,
     <<>>,
     <<"1", "a">>,
     <<"1", "0", "0", "0">>,
     <<"0", "0">>,
     <<"-", "1">>,
     <<" ", "1">>,
     <<"9", "9", "9">>}

BaseQuad == <<StrOfNat(192), StrOfNat(168), StrOfNat(1), StrOfNat(1)>>

RECURSIVE Ones(_)
Ones(k) == IF k = 0 THEN <<>> ELSE <<StrOfNat(1)>> \o Ones(k - 1)

\* a dotted quad with one octet replaced by a bad one
BadOctetAddresses ==
    {Join([BaseQuad EXCEPT ![i] = bad], ".") : i \in 1..4, bad \in BadOctetTexts}

\* too few or too many segments
WrongCountAddresses ==
    {Join(SubSeq(BaseQuad, 1, 4 - k), ".") : k \in {j \in 1..ExtraSegs : j < 4}}
        \cup {Join(BaseQuad \o Ones(k), ".") : k \in 1..ExtraSegs}

OtherMalformedAddresses ==
    {<<>>,
     <<"1", ".", "2", ".", "3", ".", "4", "/", "2", "4">>,
     <<"1", ".", "2", ".", "3", ".", "4", " ">>,
     <<"1", ",", "2", ",", "3", ",", "4">>,
     <<"1", ".", "2", ".", "3", ".", "4", ".">>,
     <<"0", "x", "1", ".", "2", ".", "3", ".", "4">>}

\* IPv6 literals
IPv6Literals ==
    {<<":", ":", "1">>,
     <<":", ":">>,
     <<"1", ":", ":">>,
     <<"f", "e", "8", "0", ":", ":", "1">>,
     <<":", ":", "f", "f", "f", "f", ":", "1", "0", ".", "0", ".", "0", ".", "1">>,
     <<"1", ":", "2", ":", "3", ":", "4", ":", "5", ":", "6", ":", "7", ":", "8">>,
     <<":", ":", "1", "%", "x">>}

\* strings with colons that are no IPv6 literal either
BadIPv6Texts ==
    {<<":", ":", ":">>,
     <<"1", ":", "2">>,
     <<":", ":", "g">>,
     <<"1", ":", "2", ":", "3", ":", "4", ":", "5", ":", "6", ":", "7", ":", "8", ":", "9">>,
     <<":", ":", "f", "f", "f", "f", ":", "9", "9", "9", ".", "0", ".", "0", ".", "1">>,
     <<"1", ":", ":", "2", ":", ":", "3">>,
     <<":", ":", "1", "%">>,
     <<":", "1", ":", "2", ":", "3", ":", "4", ":", "5", ":", "6", ":", "7">>,
     <<"1", "2", "3", "4", "5", ":", ":">>}

AddressInputs ==
    DottedQuads \cup BadOctetAddresses \cup WrongCountAddresses
        \cup OtherMalformedAddresses \cup IPv6Literals \cup BadIPv6Texts

CidrInputs == (0 - CidrSlack)..(32 + CidrSlack)

----------------------------------------------------------------------------
(* The state machine.                                                      *)

\* entry = "main": the command line, after parse_args (lines 71-75);
\* entry = "call": a direct call of calculate_network_info
Init ==
    /\ entry \in {"main", "call"}
    /\ pc = IF entry = "main" THEN "validate" ELSE "call"
    /\ ip_address \in AddressInputs
    /\ cidr_mask \in CidrInputs
    /\ network = None
    /\ network_info = None
    /\ stdout = <<>>
    /\ stderr = <<>>
    /\ exit_code = <<>>

\* main, lines 77-83: ipaddress.ip_address(ip_address), exit 1 on ValueError
MainValidate ==
    /\ pc = "validate"
    /\ IF ip_address_ok(ip_address)
       THEN /\ pc' = "calculate"
            /\ UNCHANGED <<stderr, exit_code>>
       ELSE /\ stderr' = Append(stderr, ErrAddressFormat)
            /\ exit_code' = <<1>>
            /\ pc' = "exit"
    /\ UNCHANGED <<entry, ip_address, cidr_mask, network, network_info, stdout>>

\* the effect of a return of calculate_network_info on the state
Returns(r) ==
    /\ network_info' = r.ret
    /\ network' = r.network
    /\ stderr' = stderr \o r.err

\* main, line 85: network_info = calculate_network_info(ip_address, cidr_mask)
MainCalculate ==
    /\ pc = "calculate"
    /\ Returns(calculate_network_info(ip_address, cidr_mask))
    /\ pc' = "report"
    /\ UNCHANGED <<entry, ip_address, cidr_mask, stdout, exit_code>>

\* lines 88-92: the five lines printed
report_lines(info) ==
    << <<"Network Address:   ", info.network_address>>,
       <<"Broadcast Address: ", info.broadcast_address>>,
       <<"First Usable Host: ", info.first_usable_host>>,
       <<"Last Usable Host:  ", info.last_usable_host>>,
       <<"Total Hosts:       ", StrOfWide(info.total_hosts)>> >>

\* main, lines 87-92: print the record; the process then ends with status 0
MainPrint ==
    /\ pc = "report"
    /\ network_info # None
    /\ stdout' = stdout \o report_lines(network_info)
    /\ exit_code' = <<0>>
    /\ pc' = "exit"
    /\ UNCHANGED <<entry, ip_address, cidr_mask, network, network_info, stderr>>

\* variant: the failure branch falls off the end of main (status 0)
MainExitFail_status0 ==
    /\ pc = "report"
    /\ network_info = None
    /\ exit_code' = <<0>>
    /\ pc' = "exit"
    /\ UNCHANGED <<entry, ip_address, cidr_mask, network, network_info, stdout, stderr>>

\* main, lines 93-95: sys.exit(1) when network_info is None
MainExitFail ==
    /\ pc = "report"
    /\ network_info = None
    /\ exit_code' = <<1>>
    /\ pc' = "exit"
    /\ UNCHANGED <<entry, ip_address, cidr_mask, network, network_info, stdout, stderr>>

\* a direct call of calculate_network_info(ip_address, cidr_mask)
DirectCall ==
    /\ pc = "call"
    /\ Returns(calculate_network_info(ip_address, cidr_mask))
    /\ pc' = "returned"
    /\ UNCHANGED <<entry, ip_address, cidr_mask, stdout, exit_code>>

Next ==
    \/ MainValidate
    \/ MainCalculate
    \/ MainPrint
    \/ MainExitFail
    \/ DirectCall

Spec == Init /\ [][Next]_vars

----------------------------------------------------------------------------
(* What the properties are stated with.                                    *)

\* the plain renderings of 0..255
CanonOctets == {StrOfNat(v) : v \in 0..255}

\* exactly four dot-separated decimal octets in 0..255, nothing else
WellFormedParts(parts) == Len(parts) = 4 /\ \A i \in 1..4 : parts[i] \in CanonOctets

WellFormed(s) == WellFormedParts(Split(s, "."))

ValidPrefix == cidr_mask \in 0..32

ValidInput == WellFormed(ip_address) /\ ValidPrefix

\* calculate_network_info has returned
Calculated == pc \in {"report", "returned"} \/ (pc = "exit" /\ ip_address_ok(ip_address))

\* bit i of a dotted quad, counted from the top (i = 0 is the highest bit)
BitOfParts(parts, i) == (IntOfDigits(parts[(i \div 8) + 1]) \div Pow2(7 - (i % 8))) % 2

TopBit(s, i) == BitOfParts(Split(s, "."), i)

\* 2^k as a wide integer, 0 <= k <= 32
TwoToThe(k) == IF k < 16 THEN <<0, Pow2(k)>> ELSE <<Pow2(k - 16), 0>>

----------------------------------------------------------------------------
(* Properties.                                                             *)

Recalculated == calculate_network_info(network_info.network_address, cidr_mask).ret

C7_InvalidPrefixFailsFirst ==
    (Calculated /\ WellFormed(ip_address) /\ ~ValidPrefix) =>
        /\ network_info = None
        /\ network = None
        /\ stderr = <<ErrCidr>>
        /\ stdout = <<>>
        /\ pc = "exit" => exit_code = <<1>>

\* C7: 192.168.1.1 with prefix length 33 ends main with status 1
C7_Witness ==
    /\ pc = "exit"
    /\ ip_address = <<"1", "9", "2", ".", "1", "6", "8", ".", "1", ".", "1">>
    /\ cidr_mask = 33
    /\ exit_code = <<1>>
    /\ stderr = <<ErrCidr>>
    /\ network = None

\* C8: every address string that is not four plain decimal octets ends main
\* with the invalid-address-format failure and no record, whatever the
\* prefix length.
C8_MalformedAddressRejected ==
    (entry = "main" /\ pc = "exit" /\ ~WellFormed(ip_address)) =>
        /\ stderr = <<ErrAddressFormat>>
        /\ network_info = None
        /\ stdout = <<>>

C10_AddressCheckedFirst ==
    (pc \in {"exit", "returned"} /\ ~WellFormed(ip_address) /\ ~ValidPrefix) =>
        /\ Len(stderr) >= 1
        /\ stderr[1] \in {ErrAddressFormat, ErrNetwork}

====
